---- MODULE Spec2Model ----
(***************************************************************************)
(* Session / credential lifecycle of the REST API template: the auth       *)
(* service (login, refreshToken, logout), the user and auth repositories   *)
(* over the users table, the JWT identity middleware and the central error *)
(* handler.                                                                *)
(*                                                                         *)
(* JavaScript values are modelled as follows.  An object is a record; a    *)
(* property that is undefined is a field that is absent from the record    *)
(* (Has).  A nullable column is a set with at most one element ({} is      *)
(* null).  A JWT is the record [sig, payload]: sig names the secret that   *)
(* signed it, payload holds the claims together with iat and exp.          *)
(***************************************************************************)
EXTENDS Integers, Sequences, FiniteSets, TLC

VARIABLES users, now, minted, last, pending

vars == <<users, now, minted, last, pending>>

(***************************************************************************)
(* Bounds of the model.  Time is counted in ticks; the two token lifetimes *)
(* are env.JWT_EXPIRES_IN and env.JWT_REFRESH_EXPIRES_IN scaled to ticks.  *)
(***************************************************************************)
MaxTime == 2
JWT_EXPIRES_IN == 1
JWT_REFRESH_EXPIRES_IN == 2
MaxEpoch == 1

AccountIds == {"u1", "u2"}
Usernames == {"alice", "bob", "carol"}
Passwords == {"pw-a", "pw-b"}
Statuses == {"ACTIVE", "INACTIVE", "DELETED"}

\* ------------------------------------------------------------ primitives

Has(obj, f) == f \in DOMAIN obj

\* bcrypt.hash / bcrypt.compare: a one-way image of the password.
bcryptHash(password) == [bcrypt |-> password]
bcryptCompare(password, passwordHash) == passwordHash = bcryptHash(password)

\* crypto.createHash("sha256").update(token).digest("hex")
sha256(token) == [sha256 |-> token]

\* jwt.sign(payload, secret, {expiresIn}): iat and exp are added to the claims.
jwtSign(payload, secret, expiresIn, t) ==
    [sig |-> secret, payload |-> payload @@ [iat |-> t, exp |-> t + expiresIn]]

\* jwt.verify(token, secret): the signature is checked before the expiry.
jwtVerify(token, secret, t) ==
    IF token.sig # secret THEN [ok |-> FALSE, name |-> "JsonWebTokenError"]
    ELSE IF t >= token.payload.exp THEN [ok |-> FALSE, name |-> "TokenExpiredError"]
    ELSE [ok |-> TRUE, decoded |-> token.payload]

\* ---------------------------------------------------------------- errors

\* class UnauthorizedError extends AppError: statusCode 401, isOperational.
\* site is the line of the throw, which is what err.stack shows.
UnauthorizedError(message, site) ==
    [name |-> "Error", message |-> message, statusCode |-> {401},
     isOperational |-> TRUE, stack |-> site]

\* An error thrown by the runtime or by the ORM: no statusCode, not operational.
RuntimeError(name, message, site) ==
    [name |-> name, message |-> message, statusCode |-> {},
     isOperational |-> FALSE, stack |-> site]

\* new ForbiddenError(message): an AppError with statusCode 403
ForbiddenError(message, site) ==
    [name |-> "Error", message |-> message, statusCode |-> {403}, isOperational |-> TRUE,
     stack |-> site]

\* new AppError(message, options) with an options object where the constructor
\* (message, statusCode = 500) takes the status: this.statusCode is the object,
\* kept here as statusCodeObject.
AppErrorWithOptions(message, options, site) ==
    [name |-> "Error", message |-> message, statusCodeObject |-> options,
     isOperational |-> TRUE, stack |-> site]

Throw(err) == [ok |-> FALSE, error |-> err]

\* ------------------------------------------------------- the users table

UsernameOf == [id \in AccountIds |-> IF id = "u1" THEN "alice" ELSE "bob"]
RoleOf == [id \in AccountIds |-> IF id = "u1" THEN "ADMIN" ELSE "USER"]
EmailOf == [id \in AccountIds |-> IF id = "u1" THEN "alice@example.com" ELSE "bob@example.com"]
NameOf == [id \in AccountIds |-> IF id = "u1" THEN "Alice" ELSE "Bob"]
PasswordOf == [id \in AccountIds |-> IF id = "u1" THEN "pw-a" ELSE "pw-b"]

\* A row of model User as prisma.user.create leaves it.
NewUser(id, status) ==
    [id |-> id, email |-> EmailOf[id], username |-> UsernameOf[id],
     name |-> NameOf[id], passwordHash |-> bcryptHash(PasswordOf[id]),
     role |-> RoleOf[id], status |-> status, lastLoginAt |-> {},
     refreshTokenHash |-> {}, refreshTokenVersion |-> 0]

\* The projection of a row on the columns a Prisma select names.
Select(row, columns) == [f \in (DOMAIN row) \cap columns |-> row[f]]

\* userRepository.findByUsernameForAuth(username): the whole row, or null.
findByUsernameForAuth(us, username) ==
    {us[id] : id \in {i \in DOMAIN us : us[i].username = username}}

\* A findById that returns every column of the row.
userFindById_allColumns(us, id) ==
    IF id \in DOMAIN us THEN {us[id]} ELSE {}

\* userRepository.findById(id): findUnique with a select that names neither
\* passwordHash nor refreshTokenHash nor refreshTokenVersion.
UserFindByIdColumns == {"id", "email", "username", "name", "role", "status", "lastLoginAt"}
userFindById(us, id) ==
    IF id \in DOMAIN us THEN {Select(us[id], UserFindByIdColumns)} ELSE {}

\* userRepository.update(id, data): prisma.user.update throws when no row has the id.
userUpdate(us, id, data) ==
    IF id \in DOMAIN us
    THEN [ok |-> TRUE, users |-> [us EXCEPT ![id] = data @@ us[id]]]
    ELSE [ok |-> FALSE, users |-> us,
          error |-> RuntimeError("PrismaClientKnownRequestError", "Record to update not found",
                                 "userRepository.update")]

\* A JavaScript value handed to prisma as the id of a where clause.
JsString(s) == [type |-> "string", value |-> s]
JsObject(o) == [type |-> "object", value |-> o]

\* authRepository.findById(id): findUnique({ where: { id } }), all columns.  The
\* unique filter takes a string; with anything else the ORM's outcome is one of
\* a validation error and no row.
authFindById(us, id) ==
    IF id.type = "string"
    THEN {IF id.value \in DOMAIN us THEN [ok |-> TRUE, user |-> {us[id.value]}]
                                    ELSE [ok |-> TRUE, user |-> {}]}
    ELSE {[ok |-> TRUE, user |-> {}],
          Throw(RuntimeError("PrismaClientValidationError", "Invalid value provided",
                             "authRepository.findById"))}

\* ------------------------------------------------------- the auth service

\* obj.f as JavaScript reads it: {} when the property is undefined.
Prop(obj, f) == IF Has(obj, f) THEN {obj[f]} ELSE {}

\* An object literal as JSON carries it: properties that are undefined are dropped.
JsonObject(o) == [f \in {g \in DOMAIN o : o[g] # {}} |-> CHOOSE v \in o[f] : TRUE]

TheUser(found) == CHOOSE u \in found : TRUE

LogRecord(obj, msg) == [obj |-> obj, msg |-> msg]

loginNoAccount_ignoresDeleted(found) == found = {}

\* login, line 11: !user || user.status === Status.DELETED
loginNoAccount(found) == found = {} \/ TheUser(found).status = "DELETED"

loginNotActive_wrongLiteral(user) == user.status = "SUSPENDED"

\* login, line 20: user.status !== "ACTIVE"
loginNotActive(user) == user.status # "ACTIVE"

loginInvalidCredentials_bySite(site) ==
    UnauthorizedError(IF site = "auth.service.js:12" THEN "User not found"
                      ELSE "Wrong password", site)

\* login, lines 12 and 17: new UnauthorizedError("Invalid credentials")
loginInvalidCredentials(site) == UnauthorizedError("Invalid credentials", site)

loginUserSummary_wholeRow(user) == user

\* login, lines 54-60: the user object of the value returned
loginUserSummary(user) ==
    [id |-> user.id, email |-> user.email, username |-> user.username,
     name |-> user.name, role |-> user.role]

loginUpdateData_lastLoginOnly(refreshTokenHash, t) == [lastLoginAt |-> {t}]

\* An update that also advances the refresh-token version.
loginUpdateData_bumpsVersion(refreshTokenHash, t) ==
    [refreshTokenHash |-> {refreshTokenHash}, lastLoginAt |-> {t}, refreshTokenVersion |-> 1]

\* login, lines 44-47: the data of the one userRepository.update call
loginUpdateData(refreshTokenHash, t) ==
    [refreshTokenHash |-> {refreshTokenHash}, lastLoginAt |-> {t}]

\* login, lines 24-61 for the row that passed the checks, at time t: the
\* tokens signed, the update to send and the value to return.
loginIssue(user, t) ==
    LET accessToken ==
            jwtSign(JsonObject([userId |-> Prop(user, "id"),
                                role |-> Prop(user, "role"),
                                username |-> Prop(user, "username"),
                                refreshVersion |-> Prop(user, "refreshVersion")]),
                    "JWT_SECRET", JWT_EXPIRES_IN, t)
        refreshToken ==
            jwtSign(JsonObject([userId |-> Prop(user, "id")]),
                    "JWT_REFRESH_SECRET", JWT_REFRESH_EXPIRES_IN, t)
    IN [ok |-> TRUE,
        id |-> user.id,
        data |-> loginUpdateData(sha256(refreshToken), t),
        value |-> [accessToken |-> accessToken,
                   refreshToken |-> refreshToken,
                   user |-> loginUserSummary(user)]]

\* A login that looks at the status before the password.
loginPrepare_statusFirst(found, t, password) ==
    IF loginNoAccount(found)
    THEN [ok |-> FALSE, res |-> Throw(loginInvalidCredentials("auth.service.js:12"))]
    ELSE LET user == TheUser(found) IN
    IF loginNotActive(user)
    THEN [ok |-> FALSE,
          res |-> Throw(UnauthorizedError("Account is not active", "auth.service.js:21"))]
    ELSE IF ~bcryptCompare(password, user.passwordHash)
    THEN [ok |-> FALSE, res |-> Throw(loginInvalidCredentials("auth.service.js:17"))]
    ELSE loginIssue(user, t)

\* login, lines 11-47, from the row that was read up to the update call, at
\* time t: the error thrown, or the update to send and the value to return.
loginPrepare(found, t, password) ==
    IF loginNoAccount(found)
    THEN [ok |-> FALSE, res |-> Throw(loginInvalidCredentials("auth.service.js:12"))]
    ELSE LET user == TheUser(found) IN
    IF ~bcryptCompare(password, user.passwordHash)
    THEN [ok |-> FALSE, res |-> Throw(loginInvalidCredentials("auth.service.js:17"))]
    ELSE IF loginNotActive(user)
    THEN [ok |-> FALSE,
          res |-> Throw(UnauthorizedError("Account is not active", "auth.service.js:21"))]
    ELSE loginIssue(user, t)

\* A login whose update goes to another account's row.
loginCommit_wrongRow(us, prep) ==
    LET others == DOMAIN us \ {prep.id}
        target == IF others = {} THEN prep.id ELSE CHOOSE id \in others : TRUE
        upd == userUpdate(us, target, prep.data)
    IN
    IF ~upd.ok
    THEN [res |-> Throw(upd.error), users |-> us, log |-> <<>>]
    ELSE [res |-> [ok |-> TRUE, value |-> prep.value],
          users |-> upd.users,
          log |-> <<LogRecord([userId |-> prep.id], "User logged in")>>]

\* login, lines 44-61: the update is applied to the table and login returns.
loginCommit(us, prep) ==
    LET upd == userUpdate(us, prep.id, prep.data) IN
    IF ~upd.ok
    THEN [res |-> Throw(upd.error), users |-> us, log |-> <<>>]
    ELSE [res |-> [ok |-> TRUE, value |-> prep.value],
          users |-> upd.users,
          log |-> <<LogRecord([userId |-> prep.id], "User logged in")>>]

\* authService.login({ username, password })
login(us, t, username, password) ==
    LET prep == loginPrepare(findByUsernameForAuth(us, username), t, password) IN
    IF ~prep.ok
    THEN [res |-> prep.res, users |-> us, log |-> <<>>]
    ELSE loginCommit(us, prep)

refreshTokenInvalid_byCause(site) ==
    UnauthorizedError(IF site = "auth.service.js:69" THEN "Refresh token expired or malformed"
                      ELSE IF site = "auth.service.js:74" THEN "Account not available"
                      ELSE "Refresh token revoked", site)

\* refreshToken, lines 69, 74 and 80: new UnauthorizedError("Invalid refresh token")
refreshTokenInvalid(site) == UnauthorizedError("Invalid refresh token", site)

\* refreshToken, lines 83-85: the access token signed for the row that was read
refreshTokenAccessToken(user, t) ==
    jwtSign(JsonObject([userId |-> Prop(user, "id"), role |-> Prop(user, "role")]),
            "JWT_SECRET", JWT_EXPIRES_IN, t)

\* refreshToken without the comparison of lines 79-81.
refreshToken_noHashCheck(us, t, token) ==
    LET v == jwtVerify(token, "JWT_REFRESH_SECRET", t) IN
    IF ~v.ok
    THEN Throw(refreshTokenInvalid("auth.service.js:69"))
    ELSE LET found == userFindById(us, v.decoded.userId) IN
    IF found = {} \/ Prop(TheUser(found), "status") # {"ACTIVE"}
    THEN Throw(refreshTokenInvalid("auth.service.js:74"))
    ELSE [ok |-> TRUE, value |-> [accessToken |-> refreshTokenAccessToken(TheUser(found), t)]]

\* authService.refreshToken up to the resolution of its one store read: the
\* verification of the token and the row findById returned.
refreshTokenRead(us, t, token) ==
    LET v == jwtVerify(token, "JWT_REFRESH_SECRET", t) IN
    IF ~v.ok
    THEN [ok |-> FALSE, res |-> Throw(refreshTokenInvalid("auth.service.js:69"))]
    ELSE LET decoded == v.decoded IN
         [ok |-> TRUE,
          found |-> IF Has(decoded, "userId") THEN userFindById(us, decoded.userId) ELSE {}]

\* authService.refreshToken from the row it read to its result.
refreshTokenDecide(found, t, token) ==
    IF found = {} \/ Prop(TheUser(found), "status") # {"ACTIVE"}
    THEN Throw(refreshTokenInvalid("auth.service.js:74"))
    ELSE LET user == TheUser(found)
             hashedToken == sha256(token)
         IN
    \* user.refreshTokenHash !== hashedToken: undefined and null both differ from a digest
    IF Prop(user, "refreshTokenHash") # {{hashedToken}}
    THEN Throw(refreshTokenInvalid("auth.service.js:80"))
    ELSE [ok |-> TRUE, value |-> [accessToken |-> refreshTokenAccessToken(user, t)]]

\* authService.refreshToken({ refreshToken })
refreshToken(us, t, token) ==
    LET read == refreshTokenRead(us, t, token) IN
    IF ~read.ok THEN read.res ELSE refreshTokenDecide(read.found, t, token)

\* logout whose update carries no refreshTokenHash.
logout_keepsHash(us, userId) ==
    LET upd == userUpdate(us, userId, <<>>) IN
    IF ~upd.ok
    THEN [res |-> Throw(upd.error), users |-> us, log |-> <<>>]
    ELSE [res |-> [ok |-> TRUE], users |-> upd.users,
          log |-> <<LogRecord([userId |-> userId], "User logged out")>>]

\* A logout that also deactivates the account.
logout_deactivates(us, userId) ==
    LET upd == userUpdate(us, userId, [refreshTokenHash |-> {}, status |-> "INACTIVE"]) IN
    IF ~upd.ok
    THEN [res |-> Throw(upd.error), users |-> us, log |-> <<>>]
    ELSE [res |-> [ok |-> TRUE], users |-> upd.users,
          log |-> <<LogRecord([userId |-> userId], "User logged out")>>]

\* authService.logout({ userId })
logout(us, userId) ==
    LET upd == userUpdate(us, userId, [refreshTokenHash |-> {}]) IN
    IF ~upd.ok
    THEN [res |-> Throw(upd.error), users |-> us, log |-> <<>>]
    ELSE [res |-> [ok |-> TRUE], users |-> upd.users,
          log |-> <<LogRecord([userId |-> userId], "User logged out")>>]

\* ------------------------------------------------ the identity middleware

\* A catch block that passes the request on when the error is not a JWT error.
authMiddlewareCatch_failOpen(error) ==
    IF error.name = "JsonWebTokenError"
    THEN [next |-> "error", error |-> UnauthorizedError("Invalid token", "auth.middleware.js:109")]
    ELSE IF error.name = "TokenExpiredError"
    THEN [next |-> "error", error |-> UnauthorizedError("Token expired", "auth.middleware.js:111")]
    ELSE [next |-> "handler"]

\* A catch block that answers every JWT error alike.
authMiddlewareCatch_oneMessage(error) ==
    IF error.name \in {"JsonWebTokenError", "TokenExpiredError"}
    THEN [next |-> "error", error |-> UnauthorizedError("Invalid token", "auth.middleware.js:109")]
    ELSE [next |-> "error", error |-> error]

\* The catch block of authMiddleware: what is handed to next().
authMiddlewareCatch(error) ==
    IF error.name = "JsonWebTokenError"
    THEN [next |-> "error", error |-> UnauthorizedError("Invalid token", "auth.middleware.js:109")]
    ELSE IF error.name = "TokenExpiredError"
    THEN [next |-> "error", error |-> UnauthorizedError("Token expired", "auth.middleware.js:111")]
    ELSE [next |-> "error", error |-> error]

authMiddlewareNoToken_absentOnly(authHeader) == authHeader = {}

\* authMiddleware, line 82: !authHeader || !authHeader.startsWith("Bearer ")
authMiddlewareNoToken(authHeader) ==
    authHeader = {} \/ (CHOOSE h \in authHeader : TRUE).scheme # "Bearer"

\* An outcome of the middleware together with the calls it made on the way:
\* jwt.verify (line 87) and the store lookup (line 99).
Traced(out, calls) == out @@ [calls |-> calls]

\* The body of authMiddleware(req, res, next) for a request with the given
\* Authorization header ({} when absent): the set of its possible outcomes.
\* An outcome is next() with req.user set, or next(error).
authMiddlewareOutcome(us, t, authHeader) ==
    IF authMiddlewareNoToken(authHeader)
    THEN {Traced(authMiddlewareCatch(UnauthorizedError("No token provided",
                                                        "auth.middleware.js:83")), {})}
    ELSE LET token == (CHOOSE h \in authHeader : TRUE).token
             v == jwtVerify(token, "JWT_SECRET", t)
         IN
    IF ~v.ok
    THEN {Traced(authMiddlewareCatch(RuntimeError(v.name, "jwt", "jsonwebtoken")),
                 {"jwt.verify"})}
    ELSE LET decoded == v.decoded
             where == JsObject(JsonObject([id |-> Prop(decoded, "id")]))
         IN
    {Traced(IF ~r.ok
            THEN authMiddlewareCatch(r.error)
            ELSE IF r.user = {}
            THEN authMiddlewareCatch(RuntimeError("TypeError", "Cannot read properties of null",
                                                  "auth.middleware.js:101"))
            ELSE IF Prop(TheUser(r.user), "refresh_version") # Prop(decoded, "refresh_version")
            THEN authMiddlewareCatch(UnauthorizedError("Token is not valid",
                                                       "auth.middleware.js:102"))
            ELSE [next |-> "handler", user |-> decoded],
            {"jwt.verify", "findById"})
     : r \in authFindById(us, where)}

\* A middleware that ends the sessions of the accounts.
authMiddleware_endsSessions(us, t, authHeader) ==
    {[out |-> o, users |-> [id \in DOMAIN us |-> [us[id] EXCEPT !.refreshTokenHash = {}]]]
     : o \in authMiddlewareOutcome(us, t, authHeader)}

\* A middleware that turns away the token of an account that is not ACTIVE.
authMiddleware_checksStatus(us, t, authHeader) ==
    LET bearer == {h.token : h \in {g \in authHeader : g.scheme = "Bearer"}}
        owners == UNION {Prop(k.payload, "userId") : k \in {b \in bearer : b.sig = "JWT_SECRET"}}
    IN
    IF \E id \in owners \cap DOMAIN us : us[id].status # "ACTIVE"
    THEN {[out |-> [next |-> "error",
                    error |-> UnauthorizedError("Account is not active",
                                                "auth.middleware.js:100")],
           users |-> us]}
    ELSE {[out |-> o, users |-> us] : o \in authMiddlewareOutcome(us, t, authHeader)}

\* authMiddleware(req, res, next): each outcome with the users table it leaves.
\* The only store call of the middleware is the read of line 99.
authMiddleware(us, t, authHeader) ==
    {[out |-> o, users |-> us] : o \in authMiddlewareOutcome(us, t, authHeader)}

\* ------------------------------------------------------ the error handler

NodeEnvs == {"development", "production", "test"}

\* An error handler that answers with the message of every error.
errorHandler_leaksMessage(err, nodeEnv) ==
    [status |-> IF err.statusCode = {} THEN 500 ELSE CHOOSE c \in err.statusCode : TRUE,
     body |-> [success |-> FALSE, error |-> err.message]
              @@ (IF nodeEnv = "development" THEN [stack |-> err.stack] ELSE <<>>)]

\* errorHandler(err, req, res, next): the response it writes when env.NODE_ENV is nodeEnv.
errorHandler(err, nodeEnv) ==
    \* res.status() given an object: the response cannot be written, the throw
    \* leaves the handler and the framework's final handler answers 500.
    IF Has(err, "statusCodeObject")
    THEN [status |-> 500, body |-> [html |-> "Internal Server Error"]]
    ELSE
    [status |-> IF err.statusCode = {} THEN 500 ELSE CHOOSE c \in err.statusCode : TRUE,
     body |-> [success |-> FALSE,
               error |-> IF err.isOperational THEN err.message ELSE "Internal server error"]
              @@ (IF nodeEnv = "development" THEN [stack |-> err.stack] ELSE <<>>)]

\* The response to a failed call, under each setting of NODE_ENV.
ErrorResponse(err) == [nodeEnv \in NodeEnvs |-> errorHandler(err, nodeEnv)]

\* ------------------------------------------------- the refresh endpoint

\* A controller that falls back on the body when the cookie is missing.
authControllerRefreshToken_readsBody(us, t, req) ==
    LET given == Prop(req.cookies, "refreshToken") \cup Prop(req.body, "refreshToken") IN
    IF given = {}
    THEN [res |-> {}, users |-> us,
          response |-> [nodeEnv \in NodeEnvs |->
                           [status |-> 401,
                            body |-> [success |-> FALSE, error |-> "Refresh token not found"]]]]
    ELSE LET res == refreshToken(us, t, CHOOSE k \in given : TRUE) IN
         [res |-> {res}, users |-> us,
          response |-> IF res.ok
                       THEN [nodeEnv \in NodeEnvs |->
                                [status |-> 200,
                                 body |-> [success |-> TRUE, data |-> res.value]]]
                       ELSE ErrorResponse(res.error)]

\* authController.refreshToken(req, res, next) for a request with the given
\* cookies and body: the result of the service call it makes (none when the
\* cookie is missing), the users table it leaves (neither the controller nor
\* the service writes to it) and the response, under each setting of NODE_ENV.
authControllerRefreshToken(us, t, req) ==
    IF ~Has(req.cookies, "refreshToken")
    THEN [res |-> {}, users |-> us,
          response |-> [nodeEnv \in NodeEnvs |->
                           [status |-> 401,
                            body |-> [success |-> FALSE, error |-> "Refresh token not found"]]]]
    ELSE LET res == refreshToken(us, t, req.cookies.refreshToken) IN
         [res |-> {res}, users |-> us,
          response |-> IF res.ok
                       THEN [nodeEnv \in NodeEnvs |->
                                [status |-> 200,
                                 body |-> [success |-> TRUE, data |-> res.value]]]
                       ELSE ErrorResponse(res.error)]

\* ------------------------------------------------ request validation

\* loginSchema applied to a request body: the issues zod reports.
loginSchema(body) ==
    (IF ~Has(body, "username")
     THEN {[path |-> "body.username", code |-> "invalid_type"]}
     ELSE IF Len(body.username) < 3
     THEN {[path |-> "body.username", code |-> "too_small",
            message |-> "Username must be at least 3 characters"]}
     ELSE {})
    \cup
    (IF ~Has(body, "password")
     THEN {[path |-> "body.password", code |-> "invalid_type"]}
     ELSE IF Len(body.password) < 1
     THEN {[path |-> "body.password", code |-> "too_small",
            message |-> "Password is required"]}
     ELSE {})

\* refreshTokenSchema: the body is an optional object without required keys.
refreshTokenSchema(body) == {}

\* validate(schema): next() when there is no issue, else next(new AppError(...)).
validate(issues) ==
    IF issues = {}
    THEN [ok |-> TRUE]
    ELSE Throw(AppErrorWithOptions("Validation Error",
                                   [statusCode |-> 422, code |-> "VALIDATION_ERROR",
                                    isOperational |-> TRUE, details |-> issues],
                                   "validate.middleware.js:65"))

\* ---------------------------------------- the auth controller and router

\* The settings of env that the controller reads.  COOKIE_SECURE and
\* COOKIE_DOMAIN may be unset.
CookieSecureSettings == {{}, {TRUE}, {FALSE}}
CookieDomains == {{}, {"example.com"}}
Envs == [NODE_ENV : NodeEnvs, COOKIE_SECURE : CookieSecureSettings,
         COOKIE_DOMAIN : CookieDomains]

\* The answer of the error handler, with no cookie set, under each setting of env.
HttpErrorResponse(err) ==
    [env \in Envs |-> errorHandler(err, env.NODE_ENV) @@ [cookies |-> {}]]

\* authController.login, lines 102-110: res.cookie("refreshToken", ...)
loginCookie(env, token) ==
    [name |-> "refreshToken", value |-> {token},
     options |-> JsonObject([httpOnly |-> {TRUE},
                             secure |-> IF env.NODE_ENV = "production" THEN {TRUE}
                                        ELSE env.COOKIE_SECURE,
                             sameSite |-> {IF env.NODE_ENV = "production" THEN "strict"
                                           ELSE "lax"},
                             maxAge |-> {JWT_REFRESH_EXPIRES_IN},
                             path |-> {"/api/v1/auth"},
                             domain |-> env.COOKIE_DOMAIN])]

\* authController.logout, lines 153-158: res.clearCookie("refreshToken", ...)
logoutClearCookie(env) ==
    [name |-> "refreshToken", value |-> {},
     options |-> [httpOnly |-> TRUE,
                  secure |-> env.NODE_ENV = "production",
                  sameSite |-> IF env.NODE_ENV = "production" THEN "strict" ELSE "lax",
                  path |-> "/api/v1/auth"]]

authControllerLoginBody_withRefreshToken(result) ==
    [success |-> TRUE,
     data |-> [accessToken |-> result.accessToken, refreshToken |-> result.refreshToken,
               user |-> result.user]]

\* authController.login, lines 113-119: the body of the 200 response
authControllerLoginBody(result) ==
    [success |-> TRUE, data |-> [accessToken |-> result.accessToken, user |-> result.user]]

\* authController.login(req, res, next) for a request with the given body.
authControllerLogin(us, t, body) ==
    LET r == login(us, t, body.username, body.password) IN
    [res |-> r.res, users |-> r.users, log |-> r.log,
     response |-> IF r.res.ok
                  THEN [env \in Envs |->
                           [status |-> 200,
                            body |-> authControllerLoginBody(r.res.value),
                            cookies |-> {loginCookie(env, r.res.value.refreshToken)}]]
                  ELSE HttpErrorResponse(r.res.error)]

\* authController.logout(req, res, next); reqUser is req.user ({} when undefined).
authControllerLogout(us, reqUser) ==
    IF reqUser = {}
    THEN [called |-> {}, users |-> us, log |-> <<>>,
          response |-> HttpErrorResponse(RuntimeError("TypeError",
                                                      "Cannot read properties of undefined",
                                                      "auth.controller.js:150"))]
    ELSE LET userId == Prop(TheUser(reqUser), "userId") IN
    IF userId = {}
    THEN [called |-> {userId}, users |-> us, log |-> <<>>,
          response |-> HttpErrorResponse(RuntimeError("PrismaClientValidationError",
                                                      "Argument id is missing",
                                                      "userRepository.update"))]
    ELSE LET r == logout(us, CHOOSE id \in userId : TRUE) IN
         [called |-> {userId}, users |-> r.users, log |-> r.log,
          response |-> IF r.res.ok
                       THEN [env \in Envs |->
                                [status |-> 200,
                                 body |-> [success |-> TRUE,
                                           message |-> "Logged out successfully"],
                                 cookies |-> {logoutClearCookie(env)}]]
                       ELSE HttpErrorResponse(r.res.error)]

\* A logout route that reads the claims of the Bearer token without verifying it.
authRouterLogout_decodesOnly(us, t, authHeader) ==
    IF authMiddlewareNoToken(authHeader)
    THEN {[called |-> {}, users |-> us, log |-> <<>>,
           out |-> Traced(authMiddlewareCatch(UnauthorizedError("No token provided",
                                                                "auth.middleware.js:83")), {}),
           response |-> HttpErrorResponse(UnauthorizedError("No token provided",
                                                            "auth.middleware.js:83"))]}
    ELSE LET decoded == (CHOOSE h \in authHeader : TRUE).token.payload IN
         {authControllerLogout(us, {decoded})
          @@ [out |-> Traced([next |-> "handler", user |-> decoded], {})]}

\* router.post("/logout", authMiddleware, authController.logout): the outcomes
\* of a request with the given Authorization header.
authRouterLogout(us, t, authHeader) ==
    {IF m.out.next = "handler"
     THEN authControllerLogout(m.users, {m.out.user}) @@ [out |-> m.out]
     ELSE [called |-> {}, users |-> m.users, log |-> <<>>, out |-> m.out,
           response |-> HttpErrorResponse(m.out.error)]
     : m \in authMiddleware(us, t, authHeader)}

\* ------------------------------------------------------ the users router

UsersRoutes == {"GET /", "GET /:id", "POST /", "PATCH /:id", "DELETE /:id"}

\* users.router.js, lines 14-18: the roles of the route's authorize(), {} when
\* the route has none.
usersRouterAllowedRoles(route) ==
    IF route \in {"POST /", "PATCH /:id"} THEN {{"ADMIN", "SUPER_ADMIN"}}
    ELSE IF route = "DELETE /:id" THEN {{"SUPER_ADMIN"}}
    ELSE {}

\* authorize(allowedRoles)(req, res, next); reqUser is req.user ({} when undefined).
authorize(allowedRoles, reqUser) ==
    IF reqUser = {}
    THEN Throw(ForbiddenError("Authentication required", "authorization.middleware.js:6"))
    ELSE IF \A role \in Prop(TheUser(reqUser), "role") : role \notin allowedRoles
    THEN Throw(ForbiddenError("Insufficient permissions", "authorization.middleware.js:10"))
    ELSE [ok |-> TRUE]

\* usersRouter: authMiddleware, then the route's authorize(), then its handler.
\* An outcome names the handler that ran ({} when none did).
usersRouter(us, t, route, authHeader) ==
    {IF m.out.next # "handler"
     THEN [handler |-> {}, users |-> m.users, out |-> m.out,
           response |-> {ErrorResponse(m.out.error)}]
     ELSE LET gate == usersRouterAllowedRoles(route)
              a == IF gate = {} THEN [ok |-> TRUE]
                   ELSE authorize(CHOOSE roles \in gate : TRUE, {m.out.user})
          IN IF a.ok
             THEN [handler |-> {route}, users |-> m.users, out |-> m.out, response |-> {}]
             ELSE [handler |-> {}, users |-> m.users, out |-> m.out,
                   response |-> {ErrorResponse(a.error)}]
     : m \in authMiddleware(us, t, authHeader)}

\* ------------------------------------------------------------ the machine
\* users   the users table, by id
\* now     the clock, in ticks
\* minted  the tokens handed out so far
\* last    the most recent operation, with its input and its outcome
\* pending the calls of login that are under way, by caller

Forge(token) == [token EXCEPT !.sig = "attacker"]
GarbageToken == [sig |-> "malformed", payload |-> <<>>]

\* What a client can present: the tokens handed out, re-signed copies, garbage.
Presentable == minted \cup {Forge(k) : k \in minted} \cup {GarbageToken}

AuthHeaders ==
    {{}} \cup {{[scheme |-> "Bearer", token |-> k]} : k \in Presentable}
         \cup {{[scheme |-> "Basic", token |-> GarbageToken]}}

\* What the history keeps of the operation before the last one: which operation
\* it was, whether it succeeded, the account it was about, and the refresh token
\* that the login it was (or, for a logout, the login right before it) returned.
Summary(e) ==
    [op |-> e.op,
     ok |-> IF Has(e, "res") THEN e.res.ok ELSE FALSE,
     userId |-> IF e.op = "login" /\ e.res.ok THEN {e.res.value.user.id}
                ELSE IF e.op \in {"logout", "bumpEpoch", "setStatus"} THEN {e.userId}
                ELSE {},
     refreshToken |-> IF e.op = "login" /\ e.res.ok THEN {e.res.value.refreshToken}
                      ELSE IF e.op = "logout" /\ e.prev.op = "login" /\ e.prev.userId = {e.userId}
                      THEN e.prev.refreshToken
                      ELSE {}]

\* The clients that call login concurrently.
Callers == {"c1", "c2"}

InitWith(ids) ==
    /\ users = [id \in ids |-> NewUser(id, "ACTIVE")]
    /\ now = 0
    /\ minted = {}
    /\ last = [op |-> "start", prev |-> [op |-> "none", ok |-> FALSE, userId |-> {},
                                         refreshToken |-> {}]]
    /\ pending = [p \in Callers |-> [pc |-> "idle"]]

Init == InitWith({"u1"})

\* A call of authService.login, its failure answered through the error handler.
Login ==
    \E username \in Usernames, password \in Passwords :
        LET r == login(users, now, username, password) IN
        /\ users' = r.users
        /\ minted' = IF r.res.ok
                     THEN minted \cup {r.res.value.accessToken, r.res.value.refreshToken}
                     ELSE minted
        /\ last' = [op |-> "login", username |-> username, password |-> password,
                    res |-> r.res, log |-> r.log,
                    response |-> IF r.res.ok THEN {} ELSE {ErrorResponse(r.res.error)},
                    prev |-> Summary(last)]
        /\ UNCHANGED <<now, pending>>

\* POST /refresh with a token the client holds in its cookie: the controller
\* calls authService.refreshToken.
RefreshToken ==
    \E token \in Presentable :
        LET c == authControllerRefreshToken(users, now, [cookies |-> [refreshToken |-> token],
                                                        body |-> <<>>])
            res == CHOOSE r \in c.res : TRUE
        IN
        /\ users' = c.users
        /\ minted' = IF res.ok THEN minted \cup {res.value.accessToken} ELSE minted
        /\ last' = [op |-> "refreshToken", token |-> token, res |-> res,
                    response |-> {c.response},
                    prev |-> Summary(last)]
        /\ UNCHANGED <<now, pending>>

\* POST /refresh without the cookie.
RefreshWithoutCookie ==
    LET c == authControllerRefreshToken(users, now, [cookies |-> <<>>, body |-> <<>>]) IN
    /\ users' = c.users
    /\ last' = [op |-> "refreshWithoutCookie", called |-> c.res # {},
                response |-> {c.response},
                prev |-> Summary(last)]
    /\ UNCHANGED <<now, minted, pending>>

\* A call of authService.logout.
Logout ==
    \E userId \in AccountIds :
        LET r == logout(users, userId) IN
        /\ users' = r.users
        /\ last' = [op |-> "logout", userId |-> userId, res |-> r.res, log |-> r.log,
                    prev |-> Summary(last)]
        /\ UNCHANGED <<now, minted, pending>>

\* A request to a protected route: authMiddleware, then the handler or the error handler.
Request ==
    \E authHeader \in AuthHeaders :
        \E r \in authMiddleware(users, now, authHeader) :
            /\ users' = r.users
            /\ last' = [op |-> "request", authHeader |-> authHeader, out |-> r.out,
                        response |-> IF r.out.next = "handler" THEN {}
                                     ELSE {ErrorResponse(r.out.error)},
                        prev |-> Summary(last)]
            /\ UNCHANGED <<now, minted, pending>>

\* Time passes.
Tick ==
    /\ now < MaxTime
    /\ now' = now + 1
    /\ last' = [op |-> "tick", prev |-> Summary(last)]
    /\ UNCHANGED <<users, minted, pending>>

\* An administrator changes an account's status (userRepository.update / delete).
SetStatus ==
    \E id \in DOMAIN users, status \in Statuses :
        /\ users[id].status # status
        /\ users' = [users EXCEPT ![id].status = status]
        /\ last' = [op |-> "setStatus", userId |-> id, status |-> status, prev |-> Summary(last)]
        /\ UNCHANGED <<now, minted, pending>>

\* All sessions of an account are invalidated: its refresh-token version advances.
BumpEpoch ==
    \E id \in DOMAIN users :
        /\ users[id].refreshTokenVersion < MaxEpoch
        /\ users' = [users EXCEPT ![id].refreshTokenVersion = @ + 1]
        /\ last' = [op |-> "bumpEpoch", userId |-> id, prev |-> Summary(last)]
        /\ UNCHANGED <<now, minted, pending>>

Next ==
    \/ Login \/ RefreshToken \/ RefreshWithoutCookie \/ Logout \/ Request
    \/ Tick \/ SetStatus \/ BumpEpoch

Spec == Init /\ [][Next]_vars

\* --------------------------------------------------- concurrent logins
\* Two callers run authService.login at the same time.  A call reads the row
\* (line 9), then, after the awaited bcrypt.compare, checks and signs (lines
\* 11-42) and sends the update, which the store applies later (lines 44-47).

\* login, line 9: the row is read.
LoginRead ==
    \E p \in Callers, username \in Usernames, password \in Passwords :
        /\ pending[p].pc = "idle"
        /\ pending' = [pending EXCEPT ![p] =
                           [pc |-> "read", username |-> username, password |-> password,
                            found |-> findByUsernameForAuth(users, username)]]
        /\ UNCHANGED <<users, now, minted, last>>

\* login, lines 11-42: the checks on the row that was read, and the tokens.
LoginPrepare ==
    \E p \in Callers :
        /\ pending[p].pc = "read"
        /\ LET c == pending[p]
               prep == loginPrepare(c.found, now, c.password)
           IN IF prep.ok
              THEN /\ pending' = [pending EXCEPT ![p] =
                                      [pc |-> "write", username |-> c.username,
                                       password |-> c.password, prep |-> prep]]
                   /\ UNCHANGED last
              ELSE /\ pending' = [pending EXCEPT ![p] = [pc |-> "done", res |-> prep.res]]
                   /\ last' = [op |-> "login", username |-> c.username,
                               password |-> c.password, res |-> prep.res, log |-> <<>>,
                               response |-> {ErrorResponse(prep.res.error)},
                               prev |-> Summary(last)]
        /\ UNCHANGED <<users, now, minted>>

\* login, lines 44-61: the update is applied and the call returns.
LoginWrite ==
    \E p \in Callers :
        /\ pending[p].pc = "write"
        /\ LET c == pending[p]
               r == loginCommit(users, c.prep)
           IN /\ users' = r.users
              /\ minted' = IF r.res.ok
                           THEN minted \cup {r.res.value.accessToken, r.res.value.refreshToken}
                           ELSE minted
              /\ pending' = [pending EXCEPT ![p] = [pc |-> "done", res |-> r.res]]
              /\ last' = [op |-> "login", username |-> c.username, password |-> c.password,
                          res |-> r.res, log |-> r.log,
                          response |-> IF r.res.ok THEN {} ELSE {ErrorResponse(r.res.error)},
                          prev |-> Summary(last)]
        /\ UNCHANGED now

NextLogins == LoginRead \/ LoginPrepare \/ LoginWrite \/ RefreshToken \/ Logout \/ Tick

SpecLogins == Init /\ [][NextLogins]_vars

\* ------------------------------------------------------ two accounts
\* Logins, refreshes and logouts interleave on a table with both accounts.

NextAccounts == LoginRead \/ LoginPrepare \/ LoginWrite \/ RefreshToken \/ Logout \/ Tick

SpecAccounts == InitWith(AccountIds) /\ [][NextAccounts]_vars

\* ------------------------------------------- calls racing store writes
\* A login or a refresh is in flight while a logout is applied or an
\* administrator changes the account's status.  A refresh verifies its token
\* and reads the row (lines 65-72); its checks run when the awaited read has
\* resolved (lines 73-87), on the row as it was read.

\* refreshToken, lines 65-72: the token is verified and the row is read.
RefreshRead ==
    \E p \in Callers, token \in Presentable :
        /\ pending[p].pc = "idle"
        /\ LET read == refreshTokenRead(users, now, token) IN
           IF read.ok
           THEN /\ pending' = [pending EXCEPT ![p] =
                                   [pc |-> "refreshing", token |-> token, found |-> read.found]]
                /\ last' = [op |-> "refreshRead", token |-> token, prev |-> Summary(last)]
           ELSE /\ pending' = [pending EXCEPT ![p] = [pc |-> "done", res |-> read.res]]
                /\ last' = [op |-> "refreshToken", token |-> token, res |-> read.res,
                            response |-> {ErrorResponse(read.res.error)},
                            prev |-> Summary(last)]
        /\ UNCHANGED <<users, now, minted>>

\* refreshToken, lines 73-87: the checks on the row that was read, and the result.
RefreshReturn ==
    \E p \in Callers :
        /\ pending[p].pc = "refreshing"
        /\ LET c == pending[p]
               res == refreshTokenDecide(c.found, now, c.token)
           IN /\ minted' = IF res.ok THEN minted \cup {res.value.accessToken} ELSE minted
              /\ pending' = [pending EXCEPT ![p] = [pc |-> "done", res |-> res]]
              /\ last' = [op |-> "refreshToken", token |-> c.token, res |-> res,
                          response |-> IF res.ok THEN {} ELSE {ErrorResponse(res.error)},
                          prev |-> Summary(last)]
        /\ UNCHANGED <<users, now>>

NextRaces ==
    \/ LoginRead \/ LoginPrepare \/ LoginWrite \/ RefreshRead \/ RefreshReturn
    \/ Logout \/ SetStatus \/ Tick

SpecRaces == Init /\ [][NextRaces]_vars

\* ------------------------------------------------------ the HTTP routes
\* The routes as the routers mount them: request validation, the identity
\* middleware and the role gate run before the controllers.

\* The bodies a client posts to /login; "ab" and "" are too short.
LoginBodies ==
    [username : Usernames \cup {"ab"}, password : Passwords \cup {""}]
    \cup {[username |-> "alice"]}

\* router.post("/login", validate(loginSchema), authController.login)
PostLogin ==
    \E body \in LoginBodies :
        LET v == validate(loginSchema(body)) IN
        IF ~v.ok
        THEN /\ last' = [op |-> "loginRejected", body |-> body, called |-> FALSE,
                         http |-> HttpErrorResponse(v.error),
                         prev |-> Summary(last)]
             /\ UNCHANGED <<users, now, minted, pending>>
        ELSE LET c == authControllerLogin(users, now, body) IN
             /\ users' = c.users
             /\ minted' = IF c.res.ok
                          THEN minted \cup {c.res.value.accessToken, c.res.value.refreshToken}
                          ELSE minted
             /\ last' = [op |-> "login", username |-> body.username,
                         password |-> body.password, res |-> c.res, log |-> c.log,
                         response |-> IF c.res.ok THEN {} ELSE {ErrorResponse(c.res.error)},
                         http |-> c.response,
                         prev |-> Summary(last)]
             /\ UNCHANGED <<now, pending>>

\* POST /refresh with the token in the body and no cookie.
RefreshWithBody ==
    \E token \in Presentable :
        LET body == [refreshToken |-> token]
            v == validate(refreshTokenSchema(body))
            c == authControllerRefreshToken(users, now, [cookies |-> <<>>, body |-> body])
        IN
        /\ v.ok
        /\ users' = c.users
        /\ minted' = minted \cup {r.value.accessToken : r \in {q \in c.res : q.ok}}
        /\ last' = [op |-> "refreshWithBody", token |-> token, result |-> c.res,
                    response |-> {c.response},
                    prev |-> Summary(last)]
        /\ UNCHANGED <<now, pending>>

\* router.post("/logout", authMiddleware, authController.logout)
PostLogout ==
    \E authHeader \in AuthHeaders :
        \E o \in authRouterLogout(users, now, authHeader) :
            /\ users' = o.users
            /\ last' = [op |-> "postLogout", authHeader |-> authHeader, out |-> o.out,
                        called |-> o.called, log |-> o.log, http |-> o.response,
                        prev |-> Summary(last)]
            /\ UNCHANGED <<now, minted, pending>>

\* A request to a route of the users router.
UsersRequest ==
    \E route \in UsersRoutes, authHeader \in AuthHeaders :
        \E o \in usersRouter(users, now, route, authHeader) :
            /\ users' = o.users
            /\ last' = [op |-> "usersRequest", route |-> route, authHeader |-> authHeader,
                        out |-> o.out, handler |-> o.handler, response |-> o.response,
                        prev |-> Summary(last)]
            /\ UNCHANGED <<now, minted, pending>>

NextHttp ==
    \/ PostLogin \/ RefreshToken \/ RefreshWithBody \/ PostLogout \/ UsersRequest \/ Tick

SpecHttp == Init /\ [][NextHttp]_vars

\* ================================================================ claims

\* The account a login names, as the users table holds it ({} when there is none).
Named(username) == {id \in DOMAIN users : users[id].username = username}

PasswordMatches(id, password) == users[id].passwordHash = bcryptHash(password)

\* The three outcomes of the session service that the specification names.
InvalidCredentials(res) ==
    ~res.ok /\ res.error.message = "Invalid credentials" /\ res.error.statusCode = {401}
AccountNotActive(res) ==
    ~res.ok /\ res.error.message = "Account is not active" /\ res.error.statusCode = {401}
InvalidRefreshToken(res) ==
    ~res.ok /\ res.error.message = "Invalid refresh token" /\ res.error.statusCode = {401}

\* The epoch an access token embeds ({} when it embeds none).
EmbeddedEpoch(token) == Prop(token.payload, "refreshVersion")

\* An access token that verifies under the access key and has not expired.
LiveAccessToken(token) == token.sig = "JWT_SECRET" /\ now < token.payload.exp

\* The token of a request's Authorization header, when it is a Bearer header.
BearerOf(e) == {h.token : h \in {g \in e.authHeader : g.scheme = "Bearer"}}

\* The middleware's rejection of a token issued under a superseded epoch.
SessionSuperseded(out) ==
    out.next = "error" /\ out.error.message = "Token is not valid" /\ out.error.statusCode = {401}

\* C1: for an ACTIVE account and a matching (identifier, password) pair, login
\* succeeds and the access token it returns embeds the account's stored epoch.
\* (login changes neither the status nor the epoch, so the state right after
\* the login shows the epoch at issuance.)
C1_LoginEmbedsEpoch ==
    last.op = "login" =>
        \A id \in Named(last.username) :
            (users[id].status = "ACTIVE" /\ PasswordMatches(id, last.password)) =>
                /\ last.res.ok
                /\ EmbeddedEpoch(last.res.value.accessToken) = {users[id].refreshTokenVersion}

\* C2: an unexpired access token returned by a login, presented as a Bearer
\* header with no epoch bump since, is accepted: the request proceeds and the
\* request identity is the token's claims.
C2_LoginTokenAccepted ==
    last.op = "request" =>
        \A k \in BearerOf(last) :
            (/\ k \in minted
             /\ LiveAccessToken(k)
             /\ \A id \in DOMAIN users : users[id].refreshTokenVersion = 0) =>
                last.out.next = "handler" /\ last.out.user = k.payload

\* The first half of C3: the request right after a bump of an account's epoch,
\* presenting an unexpired access token issued to that account before the bump.
C3_RejectedAfterBump ==
    [][(/\ last.op = "bumpEpoch"
        /\ last'.op = "request"
        /\ \E k \in BearerOf(last') :
               k \in minted /\ LiveAccessToken(k) /\ Prop(k.payload, "userId") = {last.userId})
       => SessionSuperseded(last'.out)]_vars

\* The second half of C3: an accepted token embeds the stored epoch of its account.
C3_MismatchNeverAccepted ==
    (last.op = "request" /\ last.out.next = "handler") =>
        \A k \in BearerOf(last) :
            \A id \in DOMAIN users :
                Prop(k.payload, "userId") = {id} =>
                    EmbeddedEpoch(k) = {users[id].refreshTokenVersion}

\* C3: after the epoch of an account is bumped, the very next request that
\* presents an unexpired access token issued to that account before the bump is
\* rejected with SessionSuperseded; and a token whose embedded epoch differs
\* from the stored epoch is never accepted.
C3_EpochInvalidation == C3_RejectedAfterBump /\ []C3_MismatchNeverAccepted

\* C4: a refresh that follows a successful login immediately and presents the
\* refresh token that login returned succeeds, and returns an access token that
\* verifies and has not expired.
C4_RefreshAfterLogin ==
    (/\ last.op = "refreshToken"
     /\ last.prev.op = "login" /\ last.prev.ok
     /\ last.prev.refreshToken = {last.token}) =>
        last.res.ok /\ LiveAccessToken(last.res.value.accessToken)

\* C5: login, then logout of the same account, then refresh with the refresh
\* token of that login: the refresh fails with InvalidRefreshToken.
C5_RefreshAfterLogout ==
    (/\ last.op = "refreshToken"
     /\ last.prev.op = "logout" /\ last.prev.ok
     /\ last.prev.refreshToken = {last.token}) =>
        InvalidRefreshToken(last.res)

C5_Witness ==
    /\ last.op = "refreshToken"
    /\ last.prev.op = "logout" /\ last.prev.ok
    /\ last.prev.refreshToken = {last.token}
    /\ last.token \in minted
    /\ now < last.token.payload.exp
    /\ InvalidRefreshToken(last.res)

UnknownIdentifier(username) == Named(username) = {}
DeletedAccount(username) == \E id \in Named(username) : users[id].status = "DELETED"
WrongPassword(username, password) ==
    \E id \in Named(username) : ~PasswordMatches(id, password)

\* C7: login fails with InvalidCredentials when the identifier matches no
\* account, when the account is DELETED, or when the password does not match;
\* then no token is issued and the users table is left as it was.
C7_InvalidCredentials ==
    [][(/\ last'.op = "login"
        /\ \/ UnknownIdentifier(last'.username)
           \/ DeletedAccount(last'.username)
           \/ WrongPassword(last'.username, last'.password))
       => /\ InvalidCredentials(last'.res)
          /\ users' = users
          /\ minted' = minted]_vars

C7_Witness ==
    /\ last.op = "login"
    /\ DeletedAccount(last.username)
    /\ ~WrongPassword(last.username, last.password)
    /\ InvalidCredentials(last.res)
    /\ \E id \in Named(last.username) : users[id].refreshTokenHash # {}

\* What the caller sees of a failed call: status, error message and success
\* flag of the response, under each setting of NODE_ENV.
Visible(res) ==
    [nodeEnv \in NodeEnvs |->
        LET r == errorHandler(res.error, nodeEnv)
        IN [status |-> r.status, error |-> r.body.error, success |-> r.body.success]]

LoginInputs == Usernames \X Passwords

InvalidCredentialsCause(in) ==
    UnknownIdentifier(in[1]) \/ DeletedAccount(in[1]) \/ WrongPassword(in[1], in[2])

C9_NotActiveAsStated ==
    last.op = "login" =>
        \A id \in Named(last.username) :
            (users[id].status # "ACTIVE" /\ PasswordMatches(id, last.password)) =>
                AccountNotActive(last.res)

\* C9, amended: for every account whose status is INACTIVE, login with the
\* correct password fails with AccountNotActive; for a DELETED account it fails
\* with InvalidCredentials.
C9_NotActiveAmended ==
    last.op = "login" =>
        \A id \in Named(last.username) :
            PasswordMatches(id, last.password) =>
                /\ users[id].status = "INACTIVE" => AccountNotActive(last.res)
                /\ users[id].status = "DELETED" => InvalidCredentials(last.res)

C9_Witness ==
    /\ last.op = "login"
    /\ \E id \in Named(last.username) :
           users[id].status = "INACTIVE" /\ PasswordMatches(id, last.password)
    /\ AccountNotActive(last.res)

\* C10: refresh returns an access token only if the presented token verifies
\* under the refresh key and is unexpired, its account exists and is ACTIVE,
\* and the account's stored refreshTokenHash is the digest of the token.
C10_RefreshOnlyIf ==
    (last.op = "refreshToken" /\ last.res.ok) =>
        /\ last.token.sig = "JWT_REFRESH_SECRET"
        /\ now < last.token.payload.exp
        /\ \E id \in DOMAIN users :
               /\ Prop(last.token.payload, "userId") = {id}
               /\ users[id].status = "ACTIVE"
               /\ users[id].refreshTokenHash = {sha256(last.token)}

\* A refresh refused for a token that verifies while one of the other
\* conditions fails: the account is not ACTIVE or its stored hash is null.
C10_Witness ==
    /\ last.op = "refreshToken" /\ ~last.res.ok
    /\ last.token \in minted
    /\ last.token.sig = "JWT_REFRESH_SECRET"
    /\ now < last.token.payload.exp
    /\ \E id \in DOMAIN users :
           /\ Prop(last.token.payload, "userId") = {id}
           /\ users[id].status # "ACTIVE" \/ users[id].refreshTokenHash = {}

\* A refresh request that did not return an access token.
RefreshFailed(e) ==
    e.op = "refreshWithoutCookie" \/ (e.op = "refreshToken" /\ ~e.res.ok)

C12_RefreshEmbedsEpoch ==
    \A id \in DOMAIN users :
        users[id].status = "ACTIVE" =>
            \A user \in userFindById(users, id) :
                LET k == refreshTokenAccessToken(user, now) IN
                /\ Prop(k.payload, "role") = {users[id].role}
                /\ EmbeddedEpoch(k) = {users[id].refreshTokenVersion}

\* The rejections of the middleware that the specification names.
MissingToken(out) ==
    out.next = "error" /\ out.error.message = "No token provided" /\ out.error.statusCode = {401}
InvalidToken(out) ==
    out.next = "error" /\ out.error.message = "Invalid token" /\ out.error.statusCode = {401}
TokenExpired(out) ==
    out.next = "error" /\ out.error.message = "Token expired" /\ out.error.statusCode = {401}

\* C13: a Bearer token signed with the access key whose expiry has passed is
\* rejected as TokenExpired, and one whose signature does not verify (corrupted
\* or malformed) is rejected as InvalidToken.
C13_ExpiredVersusInvalid ==
    last.op = "request" =>
        \A k \in BearerOf(last) :
            /\ (k.sig = "JWT_SECRET" /\ now >= k.payload.exp) =>
                   TokenExpired(last.out) /\ ~InvalidToken(last.out)
            /\ k.sig # "JWT_SECRET" =>
                   InvalidToken(last.out) /\ ~TokenExpired(last.out)

\* An expired access token from a login, rejected as TokenExpired.
C13_Witness ==
    /\ last.op = "request"
    /\ \E k \in BearerOf(last) :
           k \in minted /\ k.sig = "JWT_SECRET" /\ now >= k.payload.exp
    /\ TokenExpired(last.out)

\* C14: a request without an Authorization header, or with one that is not a
\* Bearer header, is rejected as MissingToken, and the middleware has called
\* neither jwt.verify nor the store.
C14_MissingToken ==
    (last.op = "request" /\ BearerOf(last) = {}) =>
        MissingToken(last.out) /\ last.out.calls = {}

\* A request with a header of another scheme, rejected as MissingToken.
C14_Witness ==
    /\ last.op = "request"
    /\ last.authHeader # {} /\ BearerOf(last) = {}
    /\ MissingToken(last.out)

\* C15: the handler runs only when the middleware has set the request identity
\* to the claims of a Bearer token that verifies; every other request ends with
\* an error response and no identity.
C15_HandlerOnlyAfterAccept ==
    last.op = "request" =>
        /\ last.out.next = "handler" =>
               \E k \in BearerOf(last) :
                   /\ jwtVerify(k, "JWT_SECRET", now).ok
                   /\ Prop(last.out, "user") = {k.payload}
        /\ last.out.next # "handler" =>
               /\ last.out.next = "error"
               /\ ~Has(last.out, "user")
               /\ last.response # {}
               /\ \A r \in last.response : \A nodeEnv \in NodeEnvs :
                      r[nodeEnv].status >= 400 /\ r[nodeEnv].body.success = FALSE

\* A request with an unexpired access token from a login that ends with an error.
C15_Witness ==
    /\ last.op = "request"
    /\ \E k \in BearerOf(last) : k \in minted /\ LiveAccessToken(k)
    /\ last.out.next = "error"
    /\ "findById" \in last.out.calls

\* C16: every request that the middleware does not accept is answered with
\* status 401.
C16_RejectedIs401 ==
    (last.op = "request" /\ last.out.next = "error") =>
        \A r \in last.response : \A nodeEnv \in NodeEnvs : r[nodeEnv].status = 401

\* C17: a request through the middleware leaves every field of every account
\* as it was, whatever the outcome.
C17_MiddlewareLeavesAccounts ==
    [][last'.op = "request" => users' = users]_vars

\* A request that went as far as the store lookup, for an account with a session.
C17_Witness ==
    /\ last.op = "request"
    /\ "findById" \in last.out.calls
    /\ \E id \in DOMAIN users : users[id].refreshTokenHash # {}

\* C18: after a successful login L1 and then a successful login L2 on the same
\* account, a refresh with the token of L2 succeeds and a refresh with the token
\* of L1 fails with InvalidRefreshToken.
C18_SecondLoginSupersedes ==
    [][(/\ last.op = "login" /\ last.res.ok
        /\ last.prev.op = "login" /\ last.prev.ok
        /\ last.prev.userId = {last.res.value.user.id}
        /\ last'.op = "refreshToken")
       => LET l2 == last.res.value.refreshToken IN
          /\ last'.token = l2 => last'.res.ok
          /\ last'.token \in last.prev.refreshToken \ {l2} => InvalidRefreshToken(last'.res)]_vars

\* Both concurrent logins have completed with success.
BothLoggedIn ==
    \A p \in Callers : pending[p].pc = "done" /\ pending[p].res.ok

\* Once both logins have completed, the stored refreshTokenHash is the digest
\* of the refresh token of the login whose update was applied last.
C19_LastWriterFingerprint ==
    (BothLoggedIn /\ last.op = "login") =>
        users[last.res.value.user.id].refreshTokenHash
            = {sha256(last.res.value.refreshToken)}

\* C19: once two concurrent logins on the same account have completed, the
\* stored refreshTokenHash is the digest of the refresh token of the login
\* whose update was applied last, and refresh accepts that login's token and
\* not the other's.
C19_LastWriterWins ==
    /\ C19_LastWriterFingerprint
    /\ (/\ BothLoggedIn
        /\ last.op = "refreshToken" /\ last.prev.op = "login"
        /\ \E p \in Callers : last.token = pending[p].res.value.refreshToken)
       => (last.res.ok <=> last.token \in last.prev.refreshToken)

\* C20: under any interleaving, a step that changes an account's lastLoginAt,
\* or sets its refreshTokenHash, is the write of a successful login that sets
\* both: the hash to the digest of the refresh token that login returns and
\* lastLoginAt to the time it was signed.
C20_OneAtomicWrite ==
    [][\A id \in DOMAIN users :
           (\/ users'[id].lastLoginAt # users[id].lastLoginAt
            \/ users'[id].refreshTokenHash \notin {users[id].refreshTokenHash, {}})
           => /\ last'.op = "login" /\ last'.res.ok
              /\ last'.res.value.user.id = id
              /\ users'[id].refreshTokenHash = {sha256(last'.res.value.refreshToken)}
              /\ users'[id].lastLoginAt = {last'.res.value.refreshToken.payload.iat}]_vars

\* A login has written while the other caller's update is still to be applied.
C20_Witness ==
    /\ last.op = "login" /\ last.res.ok
    /\ \E p \in Callers : pending[p].pc = "write"
    /\ \E p \in Callers : pending[p].pc = "done"
    /\ users[last.res.value.user.id].refreshTokenHash = {sha256(last.res.value.refreshToken)}
    /\ users[last.res.value.user.id].lastLoginAt = {last.res.value.refreshToken.payload.iat}

\* The operation e is a successful login to, or a successful logout of, account id.
LoginOf(e, id) == e.op = "login" /\ e.res.ok /\ e.res.value.user.id = id
LogoutOf(e, id) == e.op = "logout" /\ e.res.ok /\ e.userId = id

C22_BumpOrphansRefreshToken ==
    [][(/\ last.op = "bumpEpoch"
        /\ last.prev.op = "login" /\ last.prev.ok /\ last.prev.userId = {last.userId}
        /\ last'.op = "refreshToken"
        /\ last'.token \in last.prev.refreshToken)
       => ~last'.res.ok]_vars

\* A refresh refused right after a bump, with an unexpired refresh token whose
\* digest is still the stored hash of its ACTIVE account.
C22_Witness ==
    /\ last.op = "refreshToken" /\ ~last.res.ok
    /\ last.prev.op = "bumpEpoch"
    /\ last.token \in minted
    /\ last.token.sig = "JWT_REFRESH_SECRET" /\ now < last.token.payload.exp
    /\ \E id \in last.prev.userId :
           /\ Prop(last.token.payload, "userId") = {id}
           /\ users[id].status = "ACTIVE"
           /\ users[id].refreshTokenVersion > 0
           /\ users[id].refreshTokenHash = {sha256(last.token)}

\* A refresh token that verifies, has not expired, and whose digest is the
\* stored hash of its ACTIVE account.
Exchangeable(token) ==
    /\ token.sig = "JWT_REFRESH_SECRET" /\ now < token.payload.exp
    /\ \E id \in DOMAIN users :
           /\ Prop(token.payload, "userId") = {id}
           /\ users[id].status = "ACTIVE"
           /\ users[id].refreshTokenHash = {sha256(token)}

\* The frame half of C23: a refresh request, answered with a token or refused,
\* leaves every field of every account as it was.
C23_RefreshLeavesAccounts ==
    [][last'.op \in {"refreshToken", "refreshWithoutCookie"} => users' = users]_vars

\* C23: a refresh leaves every field of every account as it was, and a refresh
\* token that is unexpired and whose digest is stored for its ACTIVE account is
\* exchanged for an access token, each time it is presented.
C23_RefreshDoesNotRotate ==
    [][last'.op = "refreshToken" =>
           /\ users' = users
           /\ Exchangeable(last'.token) => last'.res.ok]_vars

\* C24: on the logout route, authService.logout is called only for a request
\* whose Bearer token verifies, and then for the userId of that token; a
\* request without a token that verifies is answered 401 and leaves every
\* account as it was.
C24_LogoutBehindMiddleware ==
    [][last'.op = "postLogout" =>
           /\ last'.called # {} =>
                  /\ last'.out.next = "handler"
                  /\ \E k \in BearerOf(last') :
                         /\ jwtVerify(k, "JWT_SECRET", now).ok
                         /\ last'.called = {Prop(k.payload, "userId")}
           /\ (\A k \in BearerOf(last') : ~jwtVerify(k, "JWT_SECRET", now).ok) =>
                  /\ users' = users
                  /\ \A env \in Envs : last'.http[env].status = 401]_vars

\* A logout request with a re-signed copy of a login's access token, answered
\* 401 while the account's session stays.
C24_Witness ==
    /\ last.op = "postLogout"
    /\ last.called = {}
    /\ \E k \in BearerOf(last) :
           /\ k.sig = "attacker"
           /\ \E id \in DOMAIN users :
                  Prop(k.payload, "userId") = {id} /\ users[id].refreshTokenHash # {}
    /\ \A env \in Envs : last.http[env].status = 401

\* What addresses a cookie at the client: its name, path and domain.
CookieAddress(c) ==
    [name |-> c.name, path |-> Prop(c.options, "path"), domain |-> Prop(c.options, "domain")]

\* C25: under every setting of env, the cookie that logout clears has the name,
\* path and domain of the cookie that a successful login set.
C25_LogoutClearsLoginCookie ==
    (last.op = "login" /\ last.res.ok) =>
        \A env \in Envs :
            \A c \in last.http[env].cookies :
                CookieAddress(c) = CookieAddress(logoutClearCookie(env))

C27_RejectedBeforeService ==
    [][/\ last'.op = "login" => Len(last'.username) >= 3 /\ Len(last'.password) >= 1
       /\ last'.op = "loginRejected" => ~last'.called /\ users' = users]_vars

\* C27: a login request whose username is shorter than 3 characters or whose
\* password is empty is answered 422 with error 'Validation Error' and details,
\* the service is not called and no account changes.
C27_ValidationRejects ==
    [][/\ last'.op = "login" => Len(last'.username) >= 3 /\ Len(last'.password) >= 1
       /\ last'.op = "loginRejected" =>
              /\ ~last'.called /\ users' = users
              /\ \A env \in Envs :
                     /\ last'.http[env].status = 422
                     /\ Prop(last'.http[env].body, "error") = {"Validation Error"}
                     /\ Has(last'.http[env].body, "details")]_vars

AccessTokenClaims == {"userId", "role", "username", "refreshVersion", "iat", "exp"}

\* C29: what login returns is the two tokens and a user object with id, email,
\* username, name and role only; refresh returns an access token only; the log
\* records of login and logout carry the account id only.  Neither
\* passwordHash nor refreshTokenHash is among them.
C29_NoHashLeaves ==
    /\ (last.op = "login" /\ last.res.ok) =>
           /\ DOMAIN last.res.value = {"accessToken", "refreshToken", "user"}
           /\ DOMAIN last.res.value.user = {"id", "email", "username", "name", "role"}
           /\ DOMAIN last.res.value.accessToken.payload \subseteq AccessTokenClaims
           /\ DOMAIN last.res.value.refreshToken.payload \subseteq AccessTokenClaims
    /\ (last.op = "refreshToken" /\ last.res.ok) =>
           DOMAIN last.res.value = {"accessToken"}
    /\ last.op \in {"login", "logout"} =>
           \A i \in DOMAIN last.log : DOMAIN last.log[i].obj = {"userId"}

C29_Witness ==
    /\ last.op = "login" /\ last.res.ok
    /\ Len(last.log) = 1
    /\ last.prev.op = "logout" /\ last.prev.ok

Roles == {"USER", "ADMIN", "SUPER_ADMIN"}

\* The roles that C30 names for a route of the users router.
GateOf(route) ==
    IF route \in {"POST /", "PATCH /:id"} THEN {"ADMIN", "SUPER_ADMIN"}
    ELSE IF route = "DELETE /:id" THEN {"SUPER_ADMIN"}
    ELSE Roles

\* The gate itself: on every route that has one, authorize() lets a request
\* identity through exactly when its role is among the roles C30 names.
C30_AuthorizeGate ==
    \A route \in UsersRoutes : \A role \in Roles :
        \A roles \in usersRouterAllowedRoles(route) :
            authorize(roles, {[userId |-> "u1", role |-> role]}).ok <=> role \in GateOf(route)

\* C30: a handler of the users router runs only for a request that the
\* middleware accepted and whose role the route allows; a request with an
\* unexpired access token of a login whose role the route does not allow is
\* answered 403 'Insufficient permissions' and no handler runs.
C30_RoleGate ==
    last.op = "usersRequest" =>
        /\ last.handler # {} =>
               /\ last.out.next = "handler"
               /\ Prop(last.out.user, "role") # {}
               /\ Prop(last.out.user, "role") \subseteq GateOf(last.route)
        /\ \A k \in BearerOf(last) :
               (/\ k \in minted /\ LiveAccessToken(k)
                /\ \E role \in Prop(k.payload, "role") : role \notin GateOf(last.route))
               => /\ last.handler = {}
                  /\ \A r \in last.response : \A nodeEnv \in NodeEnvs :
                         /\ r[nodeEnv].status = 403
                         /\ r[nodeEnv].body.error = "Insufficient permissions"

\* C31: login answers AccountNotActive only when the password matches the
\* stored hash; with a wrong password, an account that is neither ACTIVE nor
\* DELETED gets InvalidCredentials.
C31_PasswordBeforeStatus ==
    last.op = "login" =>
        /\ AccountNotActive(last.res) =>
               \E id \in Named(last.username) : PasswordMatches(id, last.password)
        /\ \A id \in Named(last.username) :
               (users[id].status = "INACTIVE" /\ ~PasswordMatches(id, last.password)) =>
                   InvalidCredentials(last.res)

\* A login to an INACTIVE account with a wrong password, refused as InvalidCredentials.
C31_Witness ==
    /\ last.op = "login"
    /\ \E id \in Named(last.username) :
           users[id].status = "INACTIVE" /\ ~PasswordMatches(id, last.password)
    /\ InvalidCredentials(last.res)

\* C32: under any interleaving of logins and refreshes with changes of an
\* account's status, a login or a refresh that returns a token is about an
\* account whose stored status is ACTIVE when the call returns.
C32_OnlyActiveAuthenticate ==
    /\ (last.op = "login" /\ last.res.ok) =>
           users[last.res.value.user.id].status = "ACTIVE"
    /\ (last.op = "refreshToken" /\ last.res.ok) =>
           users[last.token.payload.userId].status = "ACTIVE"

\* C33: refreshTokenVersion starts at 0 and never decreases, and a step that
\* changes it is the forced invalidation: no login, refresh or logout,
\* succeeding or failing, changes it.
C33_EpochOnlyForcedInvalidation ==
    /\ \A id \in DOMAIN users : users[id].refreshTokenVersion = 0
    /\ [][\A id \in DOMAIN users :
              /\ users'[id].refreshTokenVersion >= users[id].refreshTokenVersion
              /\ users'[id].refreshTokenVersion # users[id].refreshTokenVersion
                     => last'.op = "bumpEpoch"]_vars

C33_Witness ==
    /\ last.op = "login" /\ last.res.ok
    /\ last.prev.op = "bumpEpoch"
    /\ users[last.res.value.user.id].refreshTokenVersion = MaxEpoch

\* A refresh token that a completed login returned for the account.
MintedRefreshTokenOf(id) ==
    {k \in minted : k.sig = "JWT_REFRESH_SECRET" /\ Prop(k.payload, "userId") = {id}}

\* C34: under any interleaving of a refresh and a logout on the same account,
\* a refresh that returns while the account's stored refreshTokenHash is null
\* (the logout's write has been applied and no login has written since) is
\* refused for every refresh token a login returned for that account.
C34_NoRefreshAfterLogout ==
    (/\ last.op = "refreshToken"
     /\ \E id \in DOMAIN users :
            last.token \in MintedRefreshTokenOf(id) /\ users[id].refreshTokenHash = {})
    => InvalidRefreshToken(last.res)

\* The refresh read the row, the logout was applied, the refresh returned.
C34_Witness ==
    /\ last.op = "refreshToken" /\ last.prev.op = "logout"
    /\ \E id \in DOMAIN users :
           /\ last.token \in MintedRefreshTokenOf(id)
           /\ last.prev.userId = {id}
           /\ users[id].refreshTokenHash = {}
    /\ ~last.res.ok /\ last.res.error.stack = "auth.service.js:80"

\* C35: under any interleaving of login, refresh and logout on two accounts,
\* an account's stored refreshTokenHash is null or the digest of a refresh
\* token that a login returned for that same account.
C35_FingerprintOfOwnToken ==
    \A id \in DOMAIN users :
        \/ users[id].refreshTokenHash = {}
        \/ \E k \in MintedRefreshTokenOf(id) : users[id].refreshTokenHash = {sha256(k)}

C35_Witness ==
    /\ DOMAIN users = AccountIds
    /\ \A id \in AccountIds :
           \E k \in MintedRefreshTokenOf(id) : users[id].refreshTokenHash = {sha256(k)}

\* What the middleware answers to a request with the given header, on a table.
MiddlewareOutcomes(us, t, authHeader) == {m.out : m \in authMiddleware(us, t, authHeader)}

C37_StatusNotConsulted ==
    [][last'.op = "setStatus" =>
          \A authHeader \in AuthHeaders :
              MiddlewareOutcomes(users', now', authHeader)
                  = MiddlewareOutcomes(users, now, authHeader)]_vars

\* An ACTIVE account was just made INACTIVE or DELETED while an access token
\* of it has not expired.
C37_Witness ==
    /\ last.op = "setStatus" /\ last.status # "ACTIVE"
    /\ users[last.userId].status = last.status
    /\ \E k \in minted : LiveAccessToken(k) /\ Prop(k.payload, "userId") = {last.userId}

\* C38: the access token that refresh signs for the row it read of an ACTIVE
\* account, presented to the middleware before it expires and with the
\* account's refreshTokenVersion as it was, is passed on to the handler.
C38_RefreshedTokenAccepted ==
    \A id \in DOMAIN users :
        users[id].status = "ACTIVE" =>
            \A user \in userFindById(users, id) :
                LET k == refreshTokenAccessToken(user, now) IN
                \A out \in MiddlewareOutcomes(users, now, {[scheme |-> "Bearer", token |-> k]}) :
                    out.next = "handler"

\* The error that the last operation handed to the error handler, if any.
LastError ==
    IF last.op \in {"login", "refreshToken"} /\ ~last.res.ok THEN {last.res.error}
    ELSE IF last.op = "request" /\ last.out.next = "error" THEN {last.out.error}
    ELSE {}

\* C39: the response of the error handler to an error that is not operational
\* has the message 'Internal server error'; its status is the error's
\* statusCode, or 500 when the error has none; it carries the stack exactly
\* when NODE_ENV is 'development'.
C39_NoInternalsLeak ==
    \A err \in LastError : \A r \in last.response : \A nodeEnv \in NodeEnvs :
        /\ ~err.isOperational => r[nodeEnv].body.error = "Internal server error"
        /\ err.statusCode = {} => r[nodeEnv].status = 500
        /\ err.statusCode # {} => {r[nodeEnv].status} = err.statusCode
        /\ Has(r[nodeEnv].body, "stack") <=> nodeEnv = "development"

\* A request ended in an error that is not operational and has no statusCode.
C39_Witness ==
    /\ last.op = "request"
    /\ \E err \in LastError :
           /\ ~err.isOperational /\ err.statusCode = {}
           /\ err.message # "Internal server error"
    /\ \A r \in last.response :
           /\ r["production"] = [status |-> 500,
                                 body |-> [success |-> FALSE, error |-> "Internal server error"]]
           /\ Has(r["development"].body, "stack")

====
